---- MODULE Spec2Model ----
(***************************************************************************)
(* A model of imtool (mat-sz/imtool): the ImTool pipeline object           *)
(* (src/src/ImTool.ts, first copy, lines 1-237) over the surface           *)
(* primitives of src/src/utils/canvas.ts.                                  *)
(*                                                                         *)
(* JavaScript numbers are modelled as exact fractions n/d (d > 0), with    *)
(* d = 0 for the non-finite values (NaN, +Infinity, -Infinity).  A canvas  *)
(* dimension is an IDL `unsigned long`: assigning a number truncates it.   *)
(* A surface is a record of its integer dimensions, its origin-clean flag  *)
(* and its pixels; pixel 0 is transparent.                                 *)
(***************************************************************************)
EXTENDS Integers, FiniteSets, Sequences, TLC

VARIABLES source, pc, canvas, originalWidth, originalHeight,
          outputType, outputQuality, last, calls, task, promise

vars == <<source, pc, canvas, originalWidth, originalHeight,
          outputType, outputQuality, last, calls, task, promise>>

(***************************************************************************)
(* Bounds of the model.                                                    *)
(***************************************************************************)
\* Largest width/height of a source, and largest size argument of a call.
MaxDim == 2
\* Number of method calls made on a constructed pipeline.
MaxCalls == 2

(***************************************************************************)
(* JavaScript numbers.                                                     *)
(***************************************************************************)
Num(n, d) == [n |-> n, d |-> d]
Int2Num(i) == Num(i, 1)
NaN == Num(0, 0)
PosInf == Num(1, 0)
NegInf == Num(-1, 0)
IsFinite(x) == x.d # 0
IsNaN(x) == x.d = 0 /\ x.n = 0
\* Sign of a number: -1, 0, 1 (NaN has none and is never asked).
Sign(x) == IF x.n > 0 THEN 1 ELSE IF x.n < 0 THEN -1 ELSE 0

\* a * b
NumMul(a, b) ==
  IF IsNaN(a) \/ IsNaN(b) THEN NaN
  ELSE IF IsFinite(a) /\ IsFinite(b) THEN Num(a.n * b.n, a.d * b.d)
  ELSE IF Sign(a) * Sign(b) = 0 THEN NaN      \* 0 * Infinity
  ELSE Num(Sign(a) * Sign(b), 0)

\* a / b
NumDiv(a, b) ==
  IF IsNaN(a) \/ IsNaN(b) THEN NaN
  ELSE IF ~IsFinite(a) THEN (IF ~IsFinite(b) THEN NaN
                             ELSE Num(Sign(a) * (IF b.n < 0 THEN -1 ELSE 1), 0))
  ELSE IF ~IsFinite(b) THEN Int2Num(0)
  ELSE IF b.n = 0 THEN (IF a.n = 0 THEN NaN ELSE Num(Sign(a), 0))
  ELSE IF b.n > 0 THEN Num(a.n * b.d, a.d * b.n)
  ELSE Num(-(a.n * b.d), a.d * (-b.n))

\* a + b
NumAdd(a, b) ==
  IF IsNaN(a) \/ IsNaN(b) THEN NaN
  ELSE IF IsFinite(a) /\ IsFinite(b) THEN Num(a.n * b.d + b.n * a.d, a.d * b.d)
  ELSE IF ~IsFinite(a) /\ ~IsFinite(b) THEN (IF a.n = b.n THEN a ELSE NaN)
  ELSE IF ~IsFinite(a) THEN a ELSE b

NumNeg(a) == Num(-a.n, a.d)
NumSub(a, b) == NumAdd(a, NumNeg(b))

\* a < b, a <= b, a > b as JavaScript compares: any comparison with NaN is false.
NumLt(a, b) ==
  IF IsNaN(a) \/ IsNaN(b) THEN FALSE
  ELSE IF IsFinite(a) /\ IsFinite(b) THEN a.n * b.d < b.n * a.d
  ELSE IF ~IsFinite(a) /\ ~IsFinite(b) THEN a.n < b.n
  ELSE IF ~IsFinite(a) THEN a.n < 0 ELSE b.n > 0
NumEq(a, b) ==
  IF IsNaN(a) \/ IsNaN(b) THEN FALSE
  ELSE IF IsFinite(a) /\ IsFinite(b) THEN a.n * b.d = b.n * a.d
  ELSE a = b
NumLe(a, b) == NumLt(a, b) \/ NumEq(a, b)
NumGt(a, b) == NumLt(b, a)

\* Math.min(a, b): NaN when either argument is NaN.
MathMin(a, b) ==
  IF IsNaN(a) \/ IsNaN(b) THEN NaN ELSE IF NumLt(b, a) THEN b ELSE a

\* A fraction in lowest terms with the canonical representation of zero, so
\* that equal numbers are equal values of the model.
RECURSIVE Gcd(_, _)
Gcd(a, b) == IF b = 0 THEN a ELSE Gcd(b, a % b)
Abs(i) == IF i < 0 THEN -i ELSE i
Normal(x) ==
  IF ~IsFinite(x) THEN x
  ELSE IF x.n = 0 THEN Int2Num(0)
  ELSE LET g == Gcd(Abs(x.n), x.d) IN Num(x.n \div g, x.d \div g)

\* Floor of a finite number.
Floor(x) == x.n \div x.d

\* Conversion of a number to an IDL unsigned long, on assignment to
\* canvas.width / canvas.height: NaN and the infinities become 0, a finite
\* number is truncated.  Only non-negative numbers are ever assigned
\* (emptyCanvas has rejected the others).
ToUnsignedLong(x) ==
  IF ~IsFinite(x) THEN 0
  ELSE IF x.n >= 0 THEN x.n \div x.d
  ELSE -((-x.n) \div x.d)

(***************************************************************************)
(* Surfaces (HTMLCanvasElement with its 2d context) and image sources.     *)
(***************************************************************************)
\* Pixel values: 0 is transparent black (a fresh canvas), a positive value
\* is a colour of the source image, a negative value is a fill colour.
Transparent == 0

Pixels(w, h) == (0 .. w - 1) \X (0 .. h - 1)

\* A canvas of w x h with the given pixels.  clean is the origin-clean flag
\* of its bitmap: reading pixels back from a canvas that is not origin-clean
\* throws a SecurityError.
Surface(w, h, clean, px) ==
  [kind |-> "canvas", width |-> w, height |-> h, clean |-> clean, px |-> px]

Blank(w, h) == Surface(w, h, TRUE, [p \in Pixels(w, h) |-> Transparent])

\* No canvas: the value of the canvas field before construction.
NoCanvas == [kind |-> "none"]

\* Errors, by the message the code throws; InvalidStateError is the
\* DOMException drawImage throws for a canvas source with a zero dimension.
NoError == "none"
ErrPositive == "All arguments must be positive."
ErrImageNotLoaded == "Image is not fully loaded."
ErrVideoNotLoaded == "Video stream is not fully loaded."
ErrTainted == "Canvas is tainted."
ErrInvalidState == "InvalidStateError"

\* The two ways a function ends: returning a canvas, or throwing.
Return(c) == [err |-> NoError, canvas |-> c]
Throw(e) == [err |-> e, canvas |-> NoCanvas]

\* emptyCanvas(width, height): rejects width <= 0 or height <= 0, then
\* creates a canvas and assigns the two numbers to its dimensions.
emptyCanvas(width, height) ==
  IF NumLe(width, Int2Num(0)) \/ NumLe(height, Int2Num(0))
  THEN Throw(ErrPositive)
  ELSE Return(Blank(ToUnsignedLong(width), ToUnsignedLong(height)))

\* isTainted(ctx): getImageData(0, 0, 1, 1) throws exactly when the bitmap is
\* not origin-clean.
isTainted(c) == ~c.clean

\* drawImage's check of the usability of its image argument: "throw" for a
\* canvas with a zero dimension or a broken image, "bad" (nothing is drawn)
\* for an image that is not fully decodable or a video without a frame.
Usability(image) ==
  IF image.kind = "canvas"
  THEN (IF image.width = 0 \/ image.height = 0 THEN "throw" ELSE "good")
  ELSE IF image.kind = "image"
  THEN (IF image.complete /\ image.width = 0 THEN "throw"
        ELSE IF ~image.complete THEN "bad"
        ELSE "good")
  ELSE (IF image.readyState < 2 THEN "bad" ELSE "good")

\* The source pixel drawn at destination pixel p when the image is drawn
\* into the rectangle (dx, dy, dw, dh): the pixel of the image under the
\* centre of p (nearest-neighbour sampling), or Transparent outside the
\* rectangle.  Coordinates are doubled to keep pixel centres integral.
SampleAxis(i, d0, dl, len) ==
  (((2 * i + 1) * d0.d - 2 * d0.n) * dl.d * len) \div (2 * d0.d * dl.n)

Sample(image, p, dx, dy, dw, dh) ==
  LET u == SampleAxis(p[1], dx, dw, image.width)
      v == SampleAxis(p[2], dy, dh, image.height)
  IN IF u >= 0 /\ u < image.width /\ v >= 0 /\ v < image.height
     THEN image.px[<<u, v>>]
     ELSE Transparent

\* The current transformation of the context when flip draws: none, or the
\* mirror set up by translate(0, height); scale(1, -1) (vertical) and by
\* translate(width, 0); scale(-1, 1) (horizontal).  It maps a destination
\* pixel to the pixel of user space drawn there.
Untransform(dest, p, mirror) ==
  IF mirror = "vertical" THEN <<p[1], dest.height - 1 - p[2]>>
  ELSE IF mirror = "horizontal" THEN <<dest.width - 1 - p[1], p[2]>>
  ELSE p

\* ctx.drawImage(image, dx, dy, dw, dh) on the canvas dest, under the given
\* mirror transformation: returns without drawing when an argument is not
\* finite, throws or returns by the usability of the image, and otherwise
\* composites the scaled image over dest (source-over) and taints dest when
\* the image is not origin-clean.
drawImage(dest, image, dx, dy, dw, dh, mirror) ==
  IF ~(IsFinite(dx) /\ IsFinite(dy) /\ IsFinite(dw) /\ IsFinite(dh))
  THEN Return(dest)
  ELSE IF Usability(image) = "throw" THEN Throw(ErrInvalidState)
  ELSE IF Usability(image) = "bad" THEN Return(dest)
  ELSE IF dw.n <= 0 \/ dh.n <= 0 THEN Return(dest)
  ELSE Return(Surface(dest.width, dest.height, dest.clean /\ image.clean,
         [p \in Pixels(dest.width, dest.height) |->
            LET s == Sample(image, Untransform(dest, p, mirror), dx, dy, dw, dh)
            IN IF s = Transparent THEN dest.px[p] ELSE s]))

\* The image sources of the model: a canvas, an <img> element and a <video>
\* element; width and height are the dimensions fromImageLike reads for the
\* kind (width/height, naturalWidth/naturalHeight, videoWidth/videoHeight).
\* Pixel (i, j) of a w x h source has the colour 1 + i + w * j.
SourcePx(w, h) == [p \in Pixels(w, h) |-> 1 + p[1] + w * p[2]]

CanvasSource(w, h, clean) == Surface(w, h, clean, SourcePx(w, h))

ImageSource(w, h, clean, complete) ==
  [kind |-> "image", width |-> w, height |-> h, clean |-> clean,
   px |-> SourcePx(w, h), complete |-> complete]

VideoSource(w, h, clean, readyState, ended) ==
  [kind |-> "video", width |-> w, height |-> h, clean |-> clean,
   px |-> SourcePx(w, h), readyState |-> readyState, ended |-> ended]

\* fromImageLike without its check of isTainted.
fromImageLikeUnchecked(imageLike) ==
  IF imageLike.kind = "image" /\ ~imageLike.complete /\ imageLike.width = 0
  THEN Throw(ErrImageNotLoaded)
  ELSE IF imageLike.kind = "video"
          /\ (imageLike.readyState < 2 \/ imageLike.ended)
  THEN Throw(ErrVideoNotLoaded)
  ELSE LET width == Int2Num(imageLike.width)
           height == Int2Num(imageLike.height)
           made == emptyCanvas(width, height)
           drawn == drawImage(made.canvas, imageLike, Int2Num(0), Int2Num(0),
                              width, height, "none")
       IN IF made.err # NoError THEN made
          ELSE IF drawn.err # NoError THEN drawn
          ELSE drawn

\* fromImageLike(imageLike): the readiness checks, the canvas of the source's
\* dimensions, the drawing of the source into it and the taint check.
fromImageLike(imageLike) ==
  IF imageLike.kind = "image" /\ ~imageLike.complete /\ imageLike.width = 0
  THEN Throw(ErrImageNotLoaded)
  ELSE IF imageLike.kind = "video"
          /\ (imageLike.readyState < 2 \/ imageLike.ended)
  THEN Throw(ErrVideoNotLoaded)
  ELSE LET width == Int2Num(imageLike.width)
           height == Int2Num(imageLike.height)
           made == emptyCanvas(width, height)
           drawn == drawImage(made.canvas, imageLike, Int2Num(0), Int2Num(0),
                              width, height, "none")
       IN IF made.err # NoError THEN made
          ELSE IF drawn.err # NoError THEN drawn
          ELSE IF isTainted(drawn.canvas) THEN Throw(ErrTainted)
          ELSE drawn

(***************************************************************************)
(* The transform primitives of utils/canvas.ts.                            *)
(***************************************************************************)
\* flip with the two mirror axes exchanged.
flipAxesSwapped(input, vertical) ==
  LET width == Int2Num(input.width)
      height == Int2Num(input.height)
      made == emptyCanvas(width, height)
  IN IF made.err # NoError THEN made
     ELSE drawImage(made.canvas, input, Int2Num(0), Int2Num(0), width, height,
                    IF vertical THEN "horizontal" ELSE "vertical")

\* flip(input, vertical)
flip(input, vertical) ==
  LET width == Int2Num(input.width)
      height == Int2Num(input.height)
      made == emptyCanvas(width, height)
  IN IF made.err # NoError THEN made
     ELSE drawImage(made.canvas, input, Int2Num(0), Int2Num(0), width, height,
                    IF vertical THEN "vertical" ELSE "horizontal")

\* thumbnail(input, maxSize, cover)
thumbnail(input, maxSize, cover) ==
  LET inputWidth == Int2Num(input.width)
      inputHeight == Int2Num(input.height)
      wide == input.width > input.height
      scale == IF cover
               THEN (IF wide THEN NumDiv(maxSize, inputHeight)
                             ELSE NumDiv(maxSize, inputWidth))
               ELSE MathMin(MathMin(NumDiv(maxSize, inputWidth),
                                    NumDiv(maxSize, inputHeight)),
                            Int2Num(1))
      imageWidth == IF cover /\ ~wide THEN maxSize
                    ELSE NumMul(inputWidth, scale)
      imageHeight == IF cover /\ wide THEN maxSize
                     ELSE NumMul(inputHeight, scale)
      x == IF cover /\ wide
           THEN NumDiv(NumMul(Int2Num(-1), NumSub(imageWidth, maxSize)),
                       Int2Num(2))
           ELSE Int2Num(0)
      y == IF cover /\ ~wide
           THEN NumDiv(NumMul(Int2Num(-1), NumSub(imageHeight, maxSize)),
                       Int2Num(2))
           ELSE Int2Num(0)
      canvasWidth == IF cover THEN maxSize ELSE imageWidth
      canvasHeight == IF cover THEN maxSize ELSE imageHeight
      made == emptyCanvas(canvasWidth, canvasHeight)
  IN IF made.err # NoError THEN made
     ELSE drawImage(made.canvas, input, x, y, imageWidth, imageHeight, "none")

\* Angles are counted in twelfths of a turn (pi / 6): Math.PI * 2 is Turn.
Turn == 12
Quarter == Turn \div 4
Half == Turn \div 2

\* rad % (Math.PI * 2): the remainder has the sign of the dividend.
Remainder(a, b) == IF a >= 0 THEN a % b ELSE -((-a) % b)

\* Math.cos and Math.sin in thousandths, for a whole number of twelfths of a
\* turn.  The doubles Math.cos(Math.PI / 2), Math.sin(Math.PI) and
\* Math.cos(3 * Math.PI / 2) are not 0 but 6.1e-17, 1.2e-16 and -1.8e-16:
\* they are the entries 1 and -1.
CosTable == <<1000, 866, 500, 1, -500, -866, -1000, -866, -500, -1, 500, 866>>
SinTable == <<0, 500, 866, 1000, 866, 500, 1, -500, -866, -1000, -866, -500>>
MathCos(t) == CosTable[(Abs(t) % Turn) + 1]
MathSin(t) == IF t >= 0 THEN SinTable[(t % Turn) + 1]
              ELSE -SinTable[((-t) % Turn) + 1]
Thousandths(n) == Num(n, 1000)

\* The angle taken as given, neither reduced to a turn nor folded.
FoldAngleUnfolded(rad) == rad

\* The angle rotate uses for the dimensions: rad folded by quadrant.
FoldAngle(rad) ==
  LET angle == Remainder(rad, Turn)
  IN IF angle > Quarter
     THEN (IF angle <= Half THEN Half - angle
           ELSE IF angle <= (Half * 3) \div 2 THEN angle - Half
           ELSE Turn - angle)
     ELSE angle

\* The source pixel under the centre of destination pixel p when the input
\* is drawn at (-input.width / 2, -input.height / 2) after
\* translate(width / 2, height / 2); rotate(rad): the inverse rotation of
\* the pixel centre, in units of 1 / (2 * 1000 * 1000).
RotateSample(input, p, widthN, heightN, rad) ==
  LET ux == (2 * p[1] + 1) * 1000 - widthN
      uy == (2 * p[2] + 1) * 1000 - heightN
      c == MathCos(rad)
      s == MathSin(rad)
      u == (c * ux + s * uy + input.width * 1000000) \div 2000000
      v == (c * uy - s * ux + input.height * 1000000) \div 2000000
  IN IF u >= 0 /\ u < input.width /\ v >= 0 /\ v < input.height
     THEN input.px[<<u, v>>]
     ELSE Transparent

\* rotate(input, rad)
rotate(input, rad) ==
  LET angle == FoldAngle(rad)
      widthN == input.width * MathCos(angle)
                + input.height * MathCos(Quarter - angle)
      heightN == input.width * MathSin(angle)
                 + input.height * MathSin(Quarter - angle)
      made == emptyCanvas(Thousandths(widthN), Thousandths(heightN))
      dest == made.canvas
  IN IF made.err # NoError THEN made
     ELSE IF Usability(input) = "throw" THEN Throw(ErrInvalidState)
     ELSE Return(Surface(dest.width, dest.height, dest.clean /\ input.clean,
            [p \in Pixels(dest.width, dest.height) |->
               RotateSample(input, p, widthN, heightN, rad)]))

(***************************************************************************)
(* The ImTool class.  Its fields are the variables canvas, outputType,     *)
(* outputQuality, originalWidth and originalHeight; source is the image    *)
(* handed to the constructor, pc tells whether an instance exists, last is *)
(* the record of the latest call (its name, arguments, the error it threw, *)
(* the value it resolved with and the fields as they were before it) and   *)
(* calls counts the method calls made on the instance.                     *)
(***************************************************************************)
\* The fields of the instance.
Fields == [canvas |-> canvas, outputType |-> outputType,
           outputQuality |-> outputQuality,
           originalWidth |-> originalWidth, originalHeight |-> originalHeight]

Call(op, args, err, value) ==
  [op |-> op, args |-> args, err |-> err, value |-> value, prev |-> Fields]

\* The value of a call that returns the instance itself, or nothing.
This == [kind |-> "this"]

\* Sources handed to the constructor: canvases of every size up to MaxDim,
\* with a zero dimension or without, and <img> and <video> elements that
\* have decoded nothing yet (0 x 0) or hold a 1 x 1 picture.
Dims == 0 .. MaxDim
Sources ==
  {CanvasSource(w, h, clean) : w \in Dims, h \in Dims, clean \in BOOLEAN}
  \cup {ImageSource(d, d, clean, complete) :
          d \in {0, 1}, clean \in BOOLEAN, complete \in BOOLEAN}
  \cup {VideoSource(d, d, clean, readyState, ended) :
          d \in {0, 1}, clean \in BOOLEAN, readyState \in {1, 2},
          ended \in BOOLEAN}

\* Arguments of the calls.
Sizes == {Int2Num(i) : i \in {-1, 0, 1, 2}}
ThumbSizes == Sizes \cup {Num(1, 2)}
CropSizes == {Int2Num(i) : i \in {0, 1, 2}}
Offsets == {<<Int2Num(-1), Int2Num(-1)>>, <<Int2Num(0), Int2Num(0)>>,
            <<Int2Num(1), Int2Num(0)>>, <<Int2Num(0), Int2Num(1)>>,
            <<Int2Num(1), Int2Num(1)>>}
Angles == {-3, -1, 0, 1, 2, 3, 4, 6, 9, Turn, Turn + 1}
Colors == {"#f00", "no such color"}
Types == {"image/png", "image/bogus"}
Qualities == {Num(1, 2), Num(2, 1)}

\* A call of a from* function of index.ts that is in flight: what the call
\* itself gave (a promise, or an exception thrown at the caller), the state
\* of that promise and the error it was rejected with, the point the
\* function's asynchronous body has reached, whether the <video> made by
\* fromMediaStream has the stream as its srcObject, the state of the stream's
\* tracks, and the error of a rejection nobody handles.
NoTask == [fn |-> "none", returned |-> "nothing", settled |-> "none",
           err |-> NoError, at |-> "idle", srcObject |-> FALSE,
           tracks |-> "none", unhandled |-> NoError]

\* The promise of an export that was called and is not yet settled for the
\* caller: the method, its arguments, the fields as they were when it was
\* called, and what the method has already obtained for the caller.
NoPromise == [op |-> "none"]

\* The fields before the constructor has run.
Unbuilt ==
  /\ pc = "new"
  /\ canvas = NoCanvas
  /\ originalWidth = 0
  /\ originalHeight = 0
  /\ outputType = "image/jpeg"
  /\ outputQuality = Num(7, 10)
  /\ last = [op |-> "none", args |-> <<>>, err |-> NoError, value |-> This,
             prev |-> [canvas |-> NoCanvas]]
  /\ calls = 0
  /\ task = NoTask
  /\ promise = NoPromise

Init ==
  /\ source \in Sources
  /\ Unbuilt

\* new ImTool(image)
New(image) ==
  /\ pc = "new"
  /\ LET made == fromImageLike(image)
     IN /\ last' = Call("new", <<>>, made.err, This)
        /\ IF made.err = NoError
           THEN /\ canvas' = made.canvas
                /\ originalWidth' = made.canvas.width
                /\ originalHeight' = made.canvas.height
                /\ pc' = "ready"
           ELSE /\ pc' = "failed"
                /\ UNCHANGED <<canvas, originalWidth, originalHeight>>

Construct ==
  /\ New(source)
  /\ UNCHANGED <<task, promise, source, outputType, outputQuality, calls>>

\* A mutator that also resets originalWidth and originalHeight to the
\* dimensions of the surface it leaves.
MutateTrackingOriginal(op, args, made) ==
  /\ pc = "ready"
  /\ calls < MaxCalls
  /\ calls' = calls + 1
  /\ last' = Call(op, args, made.err, This)
  /\ canvas' = IF made.err = NoError THEN made.canvas ELSE canvas
  /\ originalWidth' = canvas'.width
  /\ originalHeight' = canvas'.height
  /\ UNCHANGED <<task, promise, source, pc, outputType, outputQuality>>

\* A method that computes a canvas and then assigns it to this.canvas: when
\* the computation throws, the assignment is not reached.
Mutate(op, args, made) ==
  /\ pc = "ready"
  /\ calls < MaxCalls
  /\ calls' = calls + 1
  /\ last' = Call(op, args, made.err, This)
  /\ canvas' = IF made.err = NoError THEN made.canvas ELSE canvas
  /\ UNCHANGED <<task, promise, source, pc, originalWidth, originalHeight,
                 outputType, outputQuality>>

\* crop(x, y, width, height)
cropCanvas(x, y, width, height) ==
  LET made == emptyCanvas(width, height)
  IN IF made.err # NoError THEN made
     ELSE drawImage(made.canvas, canvas, NumNeg(x), NumNeg(y),
                    Int2Num(canvas.width), Int2Num(canvas.height), "none")

crop ==
  \E o \in Offsets, width \in CropSizes, height \in CropSizes :
    Mutate("crop", <<o[1], o[2], width, height>>,
           cropCanvas(o[1], o[2], width, height))

\* scale(width, height)
scaleCanvas(width, height) ==
  LET made == emptyCanvas(width, height)
  IN IF made.err # NoError THEN made
     ELSE drawImage(made.canvas, canvas, Int2Num(0), Int2Num(0),
                    width, height, "none")

scale ==
  \E width \in Sizes, height \in Sizes :
    Mutate("scale", <<width, height>>, scaleCanvas(width, height))

\* flip(vertical), flipH(), flipV()
flipCall ==
  \E vertical \in BOOLEAN :
    Mutate("flip", <<vertical>>, flip(canvas, vertical))

\* thumbnail(maxSize, cover) with the cover argument not handed on.
thumbnailCallIgnoringCover ==
  \E maxSize \in ThumbSizes, cover \in BOOLEAN :
    Mutate("thumbnail", <<maxSize, cover>>, thumbnail(canvas, maxSize, FALSE))

\* thumbnail(maxSize, cover)
thumbnailCall ==
  \E maxSize \in ThumbSizes, cover \in BOOLEAN :
    Mutate("thumbnail", <<maxSize, cover>>, thumbnail(canvas, maxSize, cover))

\* rotate(rad), rotateDeg(degrees)
rotateCall ==
  \E rad \in Angles :
    Mutate("rotate", <<rad>>, rotate(canvas, rad))

\* The fill colour of a context: the colour parsed from the string assigned
\* to fillStyle; an assignment that does not parse is ignored and leaves the
\* default, black.
DefaultFillStyle == -1
FillStyle(color) == IF color = "#f00" THEN -2 ELSE DefaultFillStyle

\* background(color)
backgroundCanvas(color) ==
  LET width == Int2Num(canvas.width)
      height == Int2Num(canvas.height)
      made == emptyCanvas(width, height)
      filled == Surface(made.canvas.width, made.canvas.height, TRUE,
                  [p \in Pixels(made.canvas.width, made.canvas.height) |->
                     FillStyle(color)])
  IN IF made.err # NoError THEN made
     ELSE drawImage(filled, canvas, Int2Num(0), Int2Num(0),
                    width, height, "none")

background ==
  \E color \in Colors :
    Mutate("background", <<color>>, backgroundCanvas(color))

\* type(type)
type ==
  /\ pc = "ready"
  /\ calls < MaxCalls
  /\ \E t \in Types :
       /\ outputType' = t
       /\ last' = Call("type", <<t>>, NoError, This)
  /\ calls' = calls + 1
  /\ UNCHANGED <<task, promise, source, pc, canvas, originalWidth,
                 originalHeight,
                 outputQuality>>

\* quality(quality)
quality ==
  /\ pc = "ready"
  /\ calls < MaxCalls
  /\ \E q \in Qualities :
       /\ outputQuality' = q
       /\ last' = Call("quality", <<q>>, NoError, This)
  /\ calls' = calls + 1
  /\ UNCHANGED <<task, promise, source, pc, canvas, originalWidth,
                 originalHeight,
                 outputType>>

\* A method that reads the fields and settles the promise it returns: made
\* is the error the promise is rejected with or the value it resolves with.
Export(op, args, made) ==
  /\ pc = "ready"
  /\ calls < MaxCalls
  /\ calls' = calls + 1
  /\ last' = Call(op, args, made.err, made.canvas)
  /\ UNCHANGED <<task, promise, source, pc, canvas, originalWidth,
                 originalHeight,
                 outputType, outputQuality>>

\* The encoding the platform makes of a bitmap for canvas.toBlob and
\* canvas.toDataURL: a type it does not support is replaced by image/png,
\* the quality counts only for image/jpeg and only when it lies in 0 .. 1
\* (otherwise the platform's own default is used), and a bitmap without
\* pixels has no encoding ("data:,", a null blob).
ErrSecurity == "SecurityError"
ErrBlobUnavailable == "Blob unavailable."
ErrLoad == "error"
DefaultType == "image/png"
SupportedTypes == {"image/png", "image/jpeg"}
DefaultQuality == Num(92, 100)
NoPixels(c) == c.width = 0 \/ c.height = 0
Encode(c, t, q) ==
  LET effective == IF t \in SupportedTypes THEN t ELSE DefaultType
  IN [type |-> IF NoPixels(c) THEN "" ELSE effective,
      quality |-> IF /\ ~NoPixels(c)
                     /\ effective = "image/jpeg"
                     /\ NumLe(Int2Num(0), q)
                     /\ NumLe(q, Int2Num(1))
                  THEN q ELSE DefaultQuality,
      width |-> c.width, height |-> c.height, px |-> c.px]

\* this.canvas.toBlob(callback, type, quality) inside the executor of
\* toBlob: a tainted canvas throws, which the catch turns into a rejection;
\* a canvas without pixels gives a null blob, which the callback rejects.
canvasToBlob(c, t, q) ==
  IF isTainted(c) THEN Throw(ErrSecurity)
  ELSE IF NoPixels(c) THEN Throw(ErrBlobUnavailable)
  ELSE Return([kind |-> "blob", data |-> Encode(c, t, q)])

\* this.canvas.toDataURL(type, quality) inside the executor of toDataURL.
canvasToDataURL(c, t, q) ==
  IF isTainted(c) THEN Throw(ErrSecurity)
  ELSE Return([kind |-> "dataURL", data |-> Encode(c, t, q)])

\* loadImage(url) for a data URL: the image of the encoded bitmap, or the
\* error event when the URL holds no image.
loadImage(url) ==
  IF url.data.type = "" THEN Throw(ErrLoad)
  ELSE Return([kind |-> "image", complete |-> TRUE, clean |-> TRUE,
               width |-> url.data.width, height |-> url.data.height,
               px |-> url.data.px])

\* A canvas element handed to the caller: held tells whether it is the very
\* element this.canvas refers to; a canvas emptyCanvas has just created is
\* another element.
Element(c, held) == [kind |-> "element", held |-> held, bitmap |-> c]

\* toBlob()
toBlobValue == canvasToBlob(canvas, outputType, outputQuality)

toBlob == Export("toBlob", <<>>, toBlobValue)

\* toBlobURL(): URL.createObjectURL of the blob of toBlob.
toBlobURLValue ==
  LET blob == toBlobValue
  IN IF blob.err # NoError THEN blob
     ELSE Return([kind |-> "blobURL", blob |-> blob.canvas])

toBlobURL == Export("toBlobURL", <<>>, toBlobURLValue)

\* toDataURL()
toDataURLValue == canvasToDataURL(canvas, outputType, outputQuality)

toDataURL == Export("toDataURL", <<>>, toDataURLValue)

\* The element this.canvas itself, handed out without a copy.
toCanvasValueHeld == Return(Element(canvas, TRUE))

\* toCanvas(): a new canvas of the current dimensions with the current
\* canvas drawn into it; a throw in the executor rejects the promise.
toCanvasValue ==
  LET width == Int2Num(canvas.width)
      height == Int2Num(canvas.height)
      made == emptyCanvas(width, height)
      drawn == drawImage(made.canvas, canvas, Int2Num(0), Int2Num(0),
                         width, height, "none")
  IN IF made.err # NoError THEN made
     ELSE IF drawn.err # NoError THEN drawn
     ELSE Return(Element(drawn.canvas, FALSE))

toCanvas == Export("toCanvas", <<>>, toCanvasValue)

\* toImage(): loadImage of the URL of toDataURL.
toImageValue ==
  LET url == toDataURLValue
  IN IF url.err # NoError THEN url ELSE loadImage(url.canvas)

toImage == Export("toImage", <<>>, toImageValue)

\* File names handed to toDownload and toFile.
Names == {"picture"}

\* toDownload(name): a click on an invisible link to the URL of toDataURL;
\* the value is the download the click starts.
toDownloadValue(name) ==
  LET url == toDataURLValue
  IN IF url.err # NoError THEN url
     ELSE Return([kind |-> "download", href |-> url.canvas,
                  download |-> name])

toDownload ==
  \E name \in Names : Export("toDownload", <<name>>, toDownloadValue(name))

\* toFile(name): a File of the blob of toBlob.
toFileValue(name) ==
  LET blob == toBlobValue
  IN IF blob.err # NoError THEN blob
     ELSE Return([kind |-> "file", bits |-> blob.canvas, name |-> name])

toFile ==
  \E name \in Names : Export("toFile", <<name>>, toFileValue(name))

Next ==
  \/ Construct
  \/ crop
  \/ scale
  \/ flipCall
  \/ thumbnailCall
  \/ rotateCall
  \/ background
  \/ type
  \/ quality
  \/ toBlob
  \/ toBlobURL
  \/ toDataURL
  \/ toCanvas
  \/ toImage
  \/ toDownload
  \/ toFile

Spec == Init /\ [][Next]_vars

\* The source element changes after the instance was constructed from it:
\* a cross-origin picture is drawn on the source canvas, or loaded into the
\* source <img> or <video>.  No field of the instance refers to the source.
Taint ==
  /\ pc = "ready"
  /\ source.clean
  /\ source' = [source EXCEPT !.clean = FALSE]
  /\ UNCHANGED <<task, promise, pc, canvas, originalWidth, originalHeight,
                 outputType, outputQuality, last, calls>>

NextTaint ==
  \/ Next
  \/ Taint

SpecTaint == Init /\ [][NextTaint]_vars

(***************************************************************************)
(* The from* functions of index.ts.  source is the argument of the call:   *)
(* a canvas, a <video>, an <img>, a URL string, a Blob, a MediaStream, or, *)
(* for fromWebcam and fromScreen, the navigator.mediaDevices they ask.     *)
(***************************************************************************)
ErrUnable == "Unable to load the image."
ErrUnsupported == "Capture is not supported in this browser."
ErrNotAllowed == "NotAllowedError"

\* What loading a URL gives: src is the URL ("" when there is none), loads
\* tells whether the load ends in onload or in onerror, and clean whether
\* the picture may be read by this origin.
Loading(src, loads) == [src |-> src, loads |-> loads]
Urls == {"", "picture.png"}

ImageElements ==
  {ImageSource(d, d, clean, complete) @@ Loading(src, loads) :
     d \in {0, 1}, clean \in BOOLEAN, complete \in BOOLEAN,
     src \in Urls, loads \in BOOLEAN}
UrlStrings ==
  {[kind |-> "string", clean |-> clean] @@ Loading(src, loads) :
     clean \in BOOLEAN, src \in Urls, loads \in BOOLEAN}
Blobs ==
  {[kind |-> "blob", readable |-> readable, loads |-> loads] :
     readable \in BOOLEAN, loads \in BOOLEAN}
\* A stream whose frames are d x d (0 x 0 when it has no video to show),
\* and the readyState its <video> has when the 'playing' listener runs.
Streams ==
  {[kind |-> "stream", width |-> d, height |-> d, clean |-> clean,
    readyState |-> readyState] :
     d \in {0, 1}, clean \in BOOLEAN, readyState \in {1, 2}}
\* navigator.mediaDevices: whether it has the capture function, whether the
\* user grants the capture, and the stream a granted capture gives.
Devices ==
  {[kind |-> "devices", supported |-> supported, granted |-> granted,
    width |-> d, height |-> d, clean |-> TRUE, readyState |-> 2] :
     supported \in BOOLEAN, granted \in BOOLEAN, d \in {0, 1}}

FromInputs ==
  {CanvasSource(w, h, clean) : w \in Dims, h \in Dims, clean \in BOOLEAN}
  \cup {VideoSource(d, d, clean, readyState, ended) :
          d \in {0, 1}, clean \in BOOLEAN, readyState \in {1, 2},
          ended \in BOOLEAN}
  \cup ImageElements \cup UrlStrings \cup Blobs \cup Streams \cup Devices

InitFrom ==
  /\ source \in FromInputs
  /\ Unbuilt

pipeline == <<pc, canvas, originalWidth, originalHeight, last>>
settings == <<source, outputType, outputQuality, calls, promise>>

\* The promise a call returns, and its settling: a promise settles once.
Started(fn) ==
  [NoTask EXCEPT !.fn = fn, !.returned = "promise", !.settled = "pending"]
Thrown(fn, e) == [NoTask EXCEPT !.fn = fn, !.returned = "thrown", !.err = e]
Resolve(t) ==
  IF t.settled = "pending" THEN [t EXCEPT !.settled = "fulfilled"] ELSE t
Reject(t, e) ==
  IF t.settled = "pending"
  THEN [t EXCEPT !.settled = "rejected", !.err = e]
  ELSE t
\* An async function that ends with new ImTool(image).
Settle(t, image) ==
  LET made == fromImageLike(image)
  IN IF made.err = NoError THEN Resolve(t) ELSE Reject(t, made.err)

\* return Promise.resolve(new ImTool(image)) in a function that is not
\* async: the constructor runs first, and what it throws leaves the function
\* as an exception.
PromiseResolveNew(fn, image) ==
  /\ New(image)
  /\ task' = IF fromImageLike(image).err = NoError
             THEN Resolve(Started(fn))
             ELSE Thrown(fn, fromImageLike(image).err)
  /\ UNCHANGED settings

\* fromCanvas(canvas)
fromCanvas ==
  /\ task.fn = "none"
  /\ source.kind = "canvas"
  /\ PromiseResolveNew("fromCanvas", source)

\* fromVideo(video)
fromVideo ==
  /\ task.fn = "none"
  /\ source.kind = "video"
  /\ PromiseResolveNew("fromVideo", source)

\* fromImage(image) up to its first await or its return.
fromImage ==
  /\ task.fn = "none"
  /\ source.kind \in {"string", "blob", "image"}
  /\ LET t == Started("fromImage")
     IN IF source.kind = "blob"
        THEN /\ task' = [t EXCEPT !.at = "reading"]
             /\ UNCHANGED pipeline
        ELSE IF /\ source.kind = "image"
                /\ source.complete
                /\ source.width = 0
        THEN /\ New(source)
             /\ task' = [Settle(t, source) EXCEPT !.at = "done"]
        ELSE IF source.src # ""
        THEN /\ task' = [t EXCEPT !.at = "loading"]
             /\ UNCHANGED pipeline
        ELSE /\ task' = [Reject(t, ErrUnable) EXCEPT !.at = "done"]
             /\ UNCHANGED pipeline
  /\ UNCHANGED settings

\* fileToDataURL: the reader's load and error events.
FileRead ==
  /\ task.at = "reading"
  /\ task' = IF source.readable
             THEN [task EXCEPT !.at = "loading"]
             ELSE [Reject(task, ErrLoad) EXCEPT !.at = "done"]
  /\ UNCHANGED <<pipeline, settings>>

\* loadImage(url): img.onload, then new ImTool(img) in fromImage.
ImageLoad ==
  /\ task.at = "loading"
  /\ source.loads
  /\ LET img == ImageSource(1, 1, source.kind = "blob" \/ source.clean, TRUE)
     IN /\ New(img)
        /\ task' = [Settle(task, img) EXCEPT !.at = "done"]
  /\ UNCHANGED settings

\* loadImage(url): img.onerror.
ImageError ==
  /\ task.at = "loading"
  /\ ~source.loads
  /\ task' = [Reject(task, ErrLoad) EXCEPT !.at = "done"]
  /\ UNCHANGED <<pipeline, settings>>

\* The executor of fromMediaStream: the <video> gets the stream, is played,
\* and the two listeners are added; the promise is returned pending.
Listening(t) ==
  [t EXCEPT !.at = "listening", !.srcObject = TRUE, !.tracks = "live"]

\* fromMediaStream(stream)
fromMediaStream ==
  /\ task.fn = "none"
  /\ source.kind = "stream"
  /\ task' = Listening(Started("fromMediaStream"))
  /\ UNCHANGED <<pipeline, settings>>

\* The <video> of fromMediaStream as the 'playing' listener finds it.
StreamVideo ==
  VideoSource(source.width, source.height, source.clean, source.readyState,
              FALSE)

\* A 'playing' listener that stops the tracks before it has the ImTool.
PlayingStoppingFirst ==
  /\ task.at = "listening"
  /\ New(StreamVideo)
  /\ task' = IF fromImageLike(StreamVideo).err = NoError
             THEN [task EXCEPT !.at = "captured", !.tracks = "stopped"]
             ELSE [task EXCEPT !.at = "failed", !.tracks = "stopped",
                               !.unhandled = fromImageLike(StreamVideo).err]
  /\ UNCHANGED settings

\* The 'playing' listener up to its await: fromVideo(video) either gives a
\* promise of the new ImTool, or throws, which rejects the promise of the
\* listener itself, a promise nobody holds.
Playing ==
  /\ task.at = "listening"
  /\ New(StreamVideo)
  /\ task' = IF fromImageLike(StreamVideo).err = NoError
             THEN [task EXCEPT !.at = "captured"]
             ELSE [task EXCEPT !.at = "failed",
                               !.unhandled = fromImageLike(StreamVideo).err]
  /\ UNCHANGED settings

\* The 'playing' listener after its await: the stream is detached, its
\* tracks are stopped, and the promise is resolved.
Release ==
  /\ task.at = "captured"
  /\ task' = [Resolve(task) EXCEPT !.at = "done", !.srcObject = FALSE,
                                   !.tracks = "stopped"]
  /\ UNCHANGED <<pipeline, settings>>

\* The 'error' listener.
VideoError ==
  /\ task.at \in {"listening", "failed"}
  /\ task' = [Reject(task, ErrLoad) EXCEPT !.at = "done"]
  /\ UNCHANGED <<pipeline, settings>>

\* fromWebcam() and fromScreen() up to their await: without the capture
\* function the async function throws, which rejects its promise.
Capture(fn) ==
  /\ task.fn = "none"
  /\ source.kind = "devices"
  /\ task' = IF source.supported
             THEN [Started(fn) EXCEPT !.at = "asking"]
             ELSE [Reject(Started(fn), ErrUnsupported) EXCEPT !.at = "done"]
  /\ UNCHANGED <<pipeline, settings>>

fromWebcam == Capture("fromWebcam")

fromScreen == Capture("fromScreen")

\* getUserMedia / getDisplayMedia settles: with a stream, which is handed to
\* fromMediaStream, whose promise the function awaits and returns; or with
\* the user's refusal.
Granted ==
  /\ task.at = "asking"
  /\ task' = IF source.granted
             THEN Listening(task)
             ELSE [Reject(task, ErrNotAllowed) EXCEPT !.at = "done"]
  /\ UNCHANGED <<pipeline, settings>>

NextFrom ==
  \/ fromCanvas
  \/ fromVideo
  \/ fromImage
  \/ FileRead
  \/ ImageLoad
  \/ ImageError
  \/ fromMediaStream
  \/ Playing
  \/ Release
  \/ VideoError
  \/ fromWebcam
  \/ fromScreen
  \/ Granted

SpecFrom == InitFrom /\ [][NextFrom]_vars

(***************************************************************************)
(* emptyCanvas on its own: a call with two numbers, last.args, of which    *)
(* last keeps the error or the canvas.                                     *)
(***************************************************************************)
Numbers ==
  {NegInf, Int2Num(-1), Num(-1, 2), Int2Num(0), Num(1, 2), Int2Num(1),
   Num(3, 2), Int2Num(2), PosInf, NaN}

InitAlloc ==
  /\ source = NoCanvas
  /\ pc = "new"
  /\ canvas = NoCanvas
  /\ originalWidth = 0
  /\ originalHeight = 0
  /\ outputType = "image/jpeg"
  /\ outputQuality = Num(7, 10)
  /\ \E width \in Numbers, height \in Numbers :
       last = [op |-> "none", args |-> <<width, height>>, err |-> NoError,
               value |-> This, prev |-> [canvas |-> NoCanvas]]
  /\ calls = 0
  /\ task = NoTask
  /\ promise = NoPromise

Allocate ==
  /\ last.op = "none"
  /\ LET made == emptyCanvas(last.args[1], last.args[2])
     IN last' = [last EXCEPT !.op = "emptyCanvas", !.err = made.err,
                             !.value = made.canvas]
  /\ UNCHANGED <<pc, canvas, originalWidth, originalHeight, settings, task>>

NextAlloc == Allocate

SpecAlloc == InitAlloc /\ [][NextAlloc]_vars

(***************************************************************************)
(* An export whose promise the caller does not await before making the     *)
(* next call.  Each export obtains everything its result is made of before *)
(* it first yields: the executors of toDataURL and toCanvas run inside the *)
(* call; toBlob calls this.canvas.toBlob inside the call, which takes a    *)
(* copy of the bitmap and the values of outputType and outputQuality;      *)
(* toBlobURL and toFile begin with that call of toBlob, toImage and        *)
(* toDownload with that call of toDataURL.  What follows the first await   *)
(* (createObjectURL, loadImage, the click, new File) reads none of the     *)
(* fields.  A mutator never draws on the canvas it replaces.               *)
(***************************************************************************)
ValueNow(op, args) ==
  CASE op = "toBlob" -> toBlobValue
    [] op = "toBlobURL" -> toBlobURLValue
    [] op = "toDataURL" -> toDataURLValue
    [] op = "toCanvas" -> toCanvasValue
    [] op = "toImage" -> toImageValue
    [] op = "toDownload" -> toDownloadValue(args[1])
    [] op = "toFile" -> toFileValue(args[1])

\* The call of an export: it returns a promise and leaves every field alone.
Unawaited(op, args) ==
  /\ pc = "ready"
  /\ calls < MaxCalls
  /\ promise = NoPromise
  /\ calls' = calls + 1
  /\ promise' = [op |-> op, args |-> args, at |-> Fields,
                 outcome |-> ValueNow(op, args)]
  /\ last' = Call(op, args, NoError, [kind |-> "promise"])
  /\ UNCHANGED <<task, source, pc, canvas, originalWidth, originalHeight,
                 outputType, outputQuality>>

toBlobUnawaited == Unawaited("toBlob", <<>>)
toBlobURLUnawaited == Unawaited("toBlobURL", <<>>)
toDataURLUnawaited == Unawaited("toDataURL", <<>>)
toCanvasUnawaited == Unawaited("toCanvas", <<>>)
toImageUnawaited == Unawaited("toImage", <<>>)
toDownloadUnawaited == \E name \in Names : Unawaited("toDownload", <<name>>)
toFileUnawaited == \E name \in Names : Unawaited("toFile", <<name>>)

\* The promise's reaction runs: the caller receives the error or the value.
\* prev holds the fields as they were when the export was called.
Delivery(made) ==
  /\ promise # NoPromise
  /\ last' = [op |-> "then", args |-> <<promise.op>> \o promise.args,
              err |-> made.err, value |-> made.canvas, prev |-> promise.at]
  /\ promise' = NoPromise
  /\ UNCHANGED <<task, source, pc, canvas, originalWidth, originalHeight,
                 outputType, outputQuality, calls>>

\* A delivery of what the fields give when the reaction runs.
DeliverReadingLate == Delivery(ValueNow(promise.op, promise.args))

\* The delivery of what the export obtained inside its call.
Deliver == Delivery(promise.outcome)

\* An instance constructed from a canvas that has pixels.
ExportSources ==
  {CanvasSource(w, h, TRUE) : w \in 1 .. MaxDim, h \in 1 .. MaxDim}

InitExport ==
  /\ source \in ExportSources
  /\ pc = "ready"
  /\ canvas = fromImageLike(source).canvas
  /\ originalWidth = canvas.width
  /\ originalHeight = canvas.height
  /\ outputType = "image/jpeg"
  /\ outputQuality = Num(7, 10)
  /\ last = [op |-> "new", args |-> <<>>, err |-> NoError, value |-> This,
             prev |-> [canvas |-> NoCanvas, outputType |-> "image/jpeg",
                       outputQuality |-> Num(7, 10), originalWidth |-> 0,
                       originalHeight |-> 0]]
  /\ calls = 0
  /\ task = NoTask
  /\ promise = NoPromise

NextExport ==
  \/ toBlobUnawaited
  \/ toBlobURLUnawaited
  \/ toDataURLUnawaited
  \/ toCanvasUnawaited
  \/ toImageUnawaited
  \/ toDownloadUnawaited
  \/ toFileUnawaited
  \/ scale
  \/ flipCall
  \/ type
  \/ quality
  \/ Deliver

SpecExport == InitExport /\ [][NextExport]_vars

(***************************************************************************)
(* Properties.  last.prev holds the fields as they were when the latest    *)
(* call was made, so a property of one call is a state predicate on the    *)
(* state the call leaves.                                                  *)
(***************************************************************************)
Before == last.prev.canvas
Called(op) == pc = "ready" /\ last.op = op
IsPositiveInteger(x) == IsFinite(x) /\ x.d = 1 /\ x.n > 0
IsPositive(x) == NumGt(x, Int2Num(0))
Degenerate(c) == c.width = 0 \/ c.height = 0

\* C1: crop(x, y, w, h) with positive integers w, h replaces the held
\* surface by one of exactly w x h whose pixel (i, j) is pixel (x+i, y+j) of
\* the previous surface where that lies inside it, and blank elsewhere.
C1_CropReplaces ==
  (Called("crop") /\ IsPositiveInteger(last.args[3])
                  /\ IsPositiveInteger(last.args[4]))
  => /\ last.err = NoError
     /\ canvas.width = last.args[3].n
     /\ canvas.height = last.args[4].n
     /\ \A p \in Pixels(canvas.width, canvas.height) :
          LET q == <<last.args[1].n + p[1], last.args[2].n + p[2]>>
          IN canvas.px[p] = IF q \in Pixels(Before.width, Before.height)
                            THEN Before.px[q]
                            ELSE Transparent

\* C2: scale(w, h) with positive integers w, h leaves the pipeline with a
\* surface of exactly w x h, whatever the previous surface was.
C2_ScaleExact ==
  (Called("scale") /\ IsPositiveInteger(last.args[1])
                   /\ IsPositiveInteger(last.args[2]))
  => /\ last.err = NoError
     /\ canvas.width = last.args[1].n
     /\ canvas.height = last.args[2].n

\* C3: thumbnail(maxSize, false) with maxSize > 0 yields a surface whose
\* width and height are each at most maxSize and at most the corresponding
\* dimension of the previous surface.
C3_FitBounded ==
  (Called("thumbnail") /\ ~last.args[2] /\ IsPositive(last.args[1]))
  => /\ last.err = NoError
     /\ NumLe(Int2Num(canvas.width), last.args[1])
     /\ NumLe(Int2Num(canvas.height), last.args[1])
     /\ canvas.width <= Before.width
     /\ canvas.height <= Before.height

\* C4: thumbnail(maxSize, true) with a positive integer maxSize yields a
\* surface of exactly maxSize x maxSize for every previous surface.
C4_CoverSquare ==
  (Called("thumbnail") /\ last.args[2] /\ IsPositiveInteger(last.args[1]))
  => /\ last.err = NoError
     /\ canvas.width = last.args[1].n
     /\ canvas.height = last.args[1].n

\* A cover thumbnail of a smaller surface (enlarged) and one of a square
\* surface have both been made.
C4_Witness ==
  /\ Called("thumbnail") /\ last.args[2] /\ IsPositiveInteger(last.args[1])
  /\ Before.width = Before.height
  /\ Before.width > 0
  /\ Before.width < canvas.width
  /\ canvas.px[<<0, 0>>] # Transparent

\* C5: flip keeps the dimensions and mirrors the pixels, pixel (i, j) going
\* to (i, H-1-j) when vertical and to (W-1-i, j) when horizontal, and
\* flipping the held surface twice the same way gives the held surface back.
C5_FlipMirrors ==
  /\ Called("flip")
     => /\ canvas.width = Before.width
        /\ canvas.height = Before.height
        /\ \A p \in Pixels(Before.width, Before.height) :
             canvas.px[IF last.args[1]
                       THEN <<p[1], Before.height - 1 - p[2]>>
                       ELSE <<Before.width - 1 - p[1], p[2]>>] = Before.px[p]
  /\ pc = "ready"
     => \A vertical \in BOOLEAN :
          LET once == flip(canvas, vertical)
          IN once.err = NoError
             => flip(once.canvas, vertical) = Return(canvas)

\* A flip of a surface that is not symmetric has moved its pixels.
C5_Witness ==
  /\ Called("flip")
  /\ last.err = NoError
  /\ canvas # Before
  /\ Before.width > 1
  /\ Before.height > 1

\* C6: rotate(0) leaves the dimensions as they were, and rotate(2 pi) gives
\* the dimensions rotate(0) gives.
C6_RotateIdentity ==
  /\ (Called("rotate") /\ last.args[1] \in {0, Turn})
     => /\ canvas.width = Before.width
        /\ canvas.height = Before.height
  /\ pc = "ready"
     => LET zero == rotate(canvas, 0)
            full == rotate(canvas, Turn)
        IN /\ zero.err = full.err
           /\ zero.err = NoError
              => /\ zero.canvas.width = full.canvas.width
                 /\ zero.canvas.height = full.canvas.height

\* rotate(2 pi) has returned on a surface that is not square.
C6_Witness ==
  /\ Called("rotate")
  /\ last.args[1] = Turn
  /\ last.err = NoError
  /\ canvas.width # canvas.height

\* C7: a mutator call with positive integer arguments (for rotate, a
\* positive angle) that is made on a surface with width > 0 and height > 0
\* and returns without throwing leaves a surface with width > 0 and
\* height > 0, so that no sequence of such calls on a constructed pipeline
\* reaches a zero dimension.
PositiveIntegerArguments ==
  \/ last.op = "crop" /\ \A k \in 1 .. 4 : IsPositiveInteger(last.args[k])
  \/ last.op = "scale" /\ \A k \in 1 .. 2 : IsPositiveInteger(last.args[k])
  \/ last.op = "thumbnail" /\ IsPositiveInteger(last.args[1])
  \/ last.op = "rotate" /\ last.args[1] > 0
  \/ last.op \in {"flip", "background"}

C7_NeverDegenerate ==
  (pc = "ready" /\ PositiveIntegerArguments /\ last.err = NoError
     /\ ~Degenerate(Before))
  => canvas.width > 0 /\ canvas.height > 0

\* C8: originalWidth and originalHeight are the dimensions of the surface
\* built at construction and no call, failing or not, changes them.
C8_OriginalKept ==
  pc = "ready"
  => /\ originalWidth = source.width
     /\ originalHeight = source.height
     /\ last.op # "new"
        => /\ originalWidth = last.prev.originalWidth
           /\ originalHeight = last.prev.originalHeight

\* A call has changed the current dimensions, and a call has failed.
C8_Witness ==
  /\ pc = "ready"
  /\ last.op # "new"
  /\ last.err # NoError
  /\ canvas.width # originalWidth
  /\ canvas.height # originalHeight

\* C9: crop, scale, thumbnail or rotate called with arguments that make a
\* target dimension non-positive throws the invalid-dimension error and
\* leaves every field as it was.
NonPositive(x) == NumLe(x, Int2Num(0))
NonPositiveTarget ==
  \/ last.op = "crop" /\ (NonPositive(last.args[3]) \/ NonPositive(last.args[4]))
  \/ last.op = "scale" /\ (NonPositive(last.args[1]) \/ NonPositive(last.args[2]))
  \/ last.op = "thumbnail" /\ NonPositive(last.args[1])
  \/ /\ last.op = "rotate"
     /\ LET angle == FoldAngle(last.args[1])
        IN \/ Before.width * MathCos(angle)
                + Before.height * MathCos(Quarter - angle) <= 0
           \/ Before.width * MathSin(angle)
                + Before.height * MathSin(Quarter - angle) <= 0

C9_FailureAtomic ==
  (pc = "ready" /\ NonPositiveTarget)
  => /\ last.err = ErrPositive
     /\ Fields = last.prev

\* C10: constructing from an image whose complete flag is false, or from a
\* video with readyState < 2 or ended, fails with the not-loaded error and
\* produces no instance.
NotLoaded(image) ==
  \/ image.kind = "image" /\ ~image.complete
  \/ image.kind = "video" /\ (image.readyState < 2 \/ image.ended)

C10_NotLoadedRejected ==
  (last.op = "new" /\ NotLoaded(source))
  => /\ pc = "failed"
     /\ last.err \in {ErrImageNotLoaded, ErrVideoNotLoaded}
     /\ canvas = NoCanvas

\* C11: only a mutator changes the held surface: type and quality take any
\* value unvalidated and change only the output type, respectively the
\* output quality; every export leaves every field as it was and the
\* pipeline usable; and the canvas toCanvas resolves with is a newly created
\* element holding a copy of the held surface, with its dimensions.
Setters == {"type", "quality"}
Exports == {"toBlob", "toBlobURL", "toDataURL", "toCanvas", "toImage",
            "toDownload", "toFile"}

C11_FrameOfSettersAndExports ==
  /\ Called("type")
     => /\ last.err = NoError
        /\ Fields = [last.prev EXCEPT !.outputType = last.args[1]]
  /\ Called("quality")
     => /\ last.err = NoError
        /\ Fields = [last.prev EXCEPT !.outputQuality = last.args[1]]
  /\ last.op \in Exports => pc = "ready" /\ Fields = last.prev
  /\ (Called("toCanvas") /\ last.err = NoError)
     => /\ ~last.value.held
        /\ last.value.bitmap.width = canvas.width
        /\ last.value.bitmap.height = canvas.height
        /\ last.value.bitmap.px = canvas.px

\* toCanvas has resolved on a surface a mutator had widened.
C11_Witness ==
  /\ Called("toCanvas")
  /\ last.err = NoError
  /\ canvas.width > 1
  /\ canvas.width # originalWidth

\* C12: every from* function returns a promise for every input, and a
\* failure to construct the pipeline is a rejection of that promise with the
\* constructor's error, never an exception thrown at the caller.
C12_AlwaysAPromise ==
  task.fn # "none"
  => /\ task.returned = "promise"
     /\ pc = "failed" => task.settled = "rejected" /\ task.err = last.err

\* C13: when the 'playing' listener of fromMediaStream has failed to
\* construct the pipeline from the video, the promise fromMediaStream
\* returned is rejected with the constructor's error; it is not left
\* pending.
StreamFunctions == {"fromMediaStream", "fromWebcam", "fromScreen"}

C13_PlayingFailureRejects ==
  (task.fn \in StreamFunctions /\ pc = "failed")
  => /\ task.settled = "rejected"
     /\ task.err = last.err

\* C14: no track of the stream is stopped before the pipeline has been
\* constructed from the playing video, and whenever the promise of
\* fromMediaStream is fulfilled the video's srcObject has been cleared and
\* the tracks have been stopped.
C14_ReleasedAfterCapture ==
  task.fn \in StreamFunctions
  => /\ task.tracks = "stopped" => pc = "ready"
     /\ task.settled = "fulfilled"
        => /\ ~task.srcObject
           /\ task.tracks = "stopped"
           /\ pc = "ready"
     /\ (task.at = "captured") => task.srcObject /\ task.tracks = "live"

\* The promise of fromMediaStream has been fulfilled with a pipeline.
C14_Witness ==
  /\ task.fn = "fromMediaStream"
  /\ task.settled = "fulfilled"
  /\ task.tracks = "stopped"
  /\ pc = "ready"
  /\ canvas.width = 1

\* C15: thumbnail(maxSize, false) on a W x H surface, for positive integers
\* W, H and maxSize, yields a surface of exactly round(W * scale) x
\* round(H * scale) with scale = min(maxSize / W, maxSize / H, 1).
MathRound(x) == (2 * x.n + x.d) \div (2 * x.d)
FitScale(w, h, maxSize) ==
  MathMin(MathMin(NumDiv(maxSize, Int2Num(w)), NumDiv(maxSize, Int2Num(h))),
          Int2Num(1))

C15_FitRounds ==
  (Called("thumbnail") /\ ~last.args[2] /\ IsPositiveInteger(last.args[1])
     /\ ~Degenerate(Before))
  => LET factor == FitScale(Before.width, Before.height, last.args[1])
     IN /\ last.err = NoError
        /\ canvas.width = MathRound(NumMul(Int2Num(Before.width), factor))
        /\ canvas.height = MathRound(NumMul(Int2Num(Before.height), factor))

\* C16: rotate(rad) succeeds for every angle, positive, negative or beyond
\* a full turn, and never leaves a non-positive dimension; a rotation by k
\* quarter turns, k any integer, yields H x W for odd k and W x H for even k.
C16_RotateAnyAngle ==
  (Called("rotate") /\ ~Degenerate(Before))
  => /\ last.err = NoError
     /\ canvas.width > 0
     /\ canvas.height > 0
     /\ last.args[1] % Half = 0
        => canvas.width = Before.width /\ canvas.height = Before.height
     /\ (last.args[1] % Quarter = 0 /\ last.args[1] % Half # 0)
        => canvas.width = Before.height /\ canvas.height = Before.width

\* C17: emptyCanvas throws the invalid-dimension error whenever its width
\* or height is zero, negative, NaN or an infinity, and otherwise returns a
\* blank surface of exactly the requested dimensions.
InvalidDimension(x) == ~IsFinite(x) \/ NumLe(x, Int2Num(0))

C17_AllocationRejectsInvalid ==
  last.op = "emptyCanvas"
  => IF InvalidDimension(last.args[1]) \/ InvalidDimension(last.args[2])
     THEN last.err = ErrPositive
     ELSE /\ last.err = NoError
          /\ NumEq(Int2Num(last.value.width), last.args[1])
          /\ NumEq(Int2Num(last.value.height), last.args[2])
          /\ \A p \in Pixels(last.value.width, last.value.height) :
               last.value.px[p] = Transparent

\* C18: background(color) yields a surface of the dimensions it had, with
\* the colour wherever the previous image was transparent and the previous
\* image elsewhere; with a colour string the platform cannot parse the call
\* fails and the held surface is not replaced.
Parseable(color) == color = "#f00"

C18_BackgroundColor ==
  (Called("background") /\ ~Degenerate(Before))
  => IF Parseable(last.args[1])
     THEN /\ last.err = NoError
          /\ canvas.width = Before.width
          /\ canvas.height = Before.height
          /\ \A p \in Pixels(Before.width, Before.height) :
               canvas.px[p] = IF Before.px[p] = Transparent
                              THEN FillStyle(last.args[1])
                              ELSE Before.px[p]
     ELSE /\ last.err # NoError
          /\ canvas = Before

\* C19 as stated: whenever an export has been called, is not yet delivered,
\* and a later mutator or setter has changed what the export would give, the
\* delivery can hand the caller the result of the changed fields.
C19_LaterCallReachesExport ==
  (/\ promise # NoPromise
   /\ ValueNow(promise.op, promise.args) # promise.outcome)
    => ENABLED (/\ Deliver
                /\ last'.err = ValueNow(promise.op, promise.args).err
                /\ last'.value = ValueNow(promise.op, promise.args).canvas)

\* C19, corrected: the result delivered for an export is the encoding (or
\* the copy) of the surface, type and quality as they were at the moment
\* the export was called, whatever was called before the delivery.
C19_ExportSnapshots ==
  last.op = "then" =>
    LET at == last.prev
        op == last.args[1]
        data == Encode(at.canvas, at.outputType, at.outputQuality)
        got == last.value
    IN /\ last.err = NoError
       /\ CASE op \in {"toBlob", "toDataURL"} -> got.data = data
            [] op = "toBlobURL" -> got.blob.data = data
            [] op = "toFile" -> got.bits.data = data
            [] op = "toDownload" -> got.href.data = data
            [] op = "toImage" ->
                 /\ got.width = at.canvas.width
                 /\ got.height = at.canvas.height
                 /\ got.px = at.canvas.px
            [] op = "toCanvas" ->
                 /\ got.bitmap.width = at.canvas.width
                 /\ got.bitmap.height = at.canvas.height
                 /\ got.bitmap.px = at.canvas.px

\* A blob is delivered after a mutator has replaced the surface the export
\* was called on.
C19_Witness ==
  /\ last.op = "then"
  /\ last.args[1] = "toBlob"
  /\ last.err = NoError
  /\ canvas.px # last.prev.canvas.px

\* C20: in every state the instance can reach, the surface it holds is not
\* tainted, and no export fails with the platform's SecurityError; this
\* stays so when the source becomes tainted after the construction.
C20_NeverTainted ==
  pc = "ready" =>
    /\ ~isTainted(canvas)
    /\ (last.op \in Exports => last.err # ErrSecurity)

\* An export succeeds on an instance whose source has become tainted since
\* the construction.
C20_Witness ==
  /\ pc = "ready"
  /\ ~source.clean
  /\ last.op = "toBlob"
  /\ last.err = NoError

\* C21: the call of fromImage on an <img> element constructs the instance
\* from the element inside the call exactly when the element is loaded
\* (complete, naturalWidth > 0); otherwise the call constructs nothing and
\* goes on to load the element's src.  So no construction is attempted from
\* an element whose naturalWidth is 0.
C21_DirectExactlyWhenLoaded ==
  [][(/\ task.fn = "none"
      /\ task'.fn = "fromImage"
      /\ source.kind = "image")
       => /\ pc' # "new" <=> (source.complete /\ source.width > 0)
          /\ pc' # "new" => source.width > 0]_vars

=============================================================================
